---------------------------- MODULE Spec2Model ----------------------------
(***************************************************************************)
(* Model of the resumable block indexer, src/indexer/reliable_indexer.py   *)
(* (class ReliableIndexer): per-batch concurrent fetch, wallet             *)
(* aggregation, the SQLite upserts of save_batch_to_db, the two checkpoint *)
(* stores and the four run modes.                                          *)
(*                                                                         *)
(* Wei amounts do not fit TLC's integers, so an amount is the sequence of  *)
(* its decimal digits, least significant first (the decimal text Python's  *)
(* str() and SQLite's TEXT column hold, reversed); <<>> is zero.           *)
(***************************************************************************)
EXTENDS Integers, Sequences, FiniteSets, Bags, TLC

(***************************************************************************)
(* Arbitrary-precision naturals (Python int) and SQLite REAL arithmetic    *)
(***************************************************************************)

RECURSIVE Norm(_)
\* drop the leading zeros of a digit sequence
Norm(x) ==
    IF x = <<>> THEN x
    ELSE IF x[Len(x)] = 0 THEN Norm(SubSeq(x, 1, Len(x) - 1)) ELSE x

RECURSIVE SmallDigits(_)
\* the digits of a small natural
SmallDigits(n) ==
    IF n = 0 THEN <<>> ELSE <<n % 10>> \o SmallDigits(n \div 10)

\* n * 10^e
Dec(n, e) ==
    IF n = 0 THEN <<>> ELSE [i \in 1..e |-> 0] \o SmallDigits(n)

RECURSIVE AddC(_, _, _)
AddC(x, y, c) ==
    IF x = <<>> /\ y = <<>>
    THEN (IF c = 0 THEN <<>> ELSE <<c>>)
    ELSE LET dx == IF x = <<>> THEN 0 ELSE Head(x)
             dy == IF y = <<>> THEN 0 ELSE Head(y)
             s  == dx + dy + c
         IN  <<s % 10>> \o AddC(IF x = <<>> THEN x ELSE Tail(x),
                                IF y = <<>> THEN y ELSE Tail(y),
                                s \div 10)

\* Python: a + b on ints (exact)
IntAdd(x, y) == AddC(x, y, 0)

\* x < y
IntLess(x, y) ==
    \/ Len(x) < Len(y)
    \/ /\ Len(x) = Len(y)
       /\ \E i \in 1..Len(x) :
            /\ x[i] < y[i]
            /\ \A j \in (i + 1)..Len(x) : x[j] = y[j]

\* Python: a >= b on ints; SQLite: a >= b on REALs holding integers
IntGeq(x, y) == ~IntLess(x, y)

IsOdd(x) == x # <<>> /\ x[1] % 2 = 1

RECURSIVE DivStep(_, _, _, _)
\* long division of the digits x[1..i] (remainder rem carried in from above)
\* by a small natural d
DivStep(x, d, i, rem) ==
    IF i = 0 THEN [q |-> <<>>, r |-> rem]
    ELSE LET cur  == rem * 10 + x[i]
             rest == DivStep(x, d, i - 1, cur % d)
         IN  [q |-> Append(rest.q, cur \div d), r |-> rest.r]

\* [q |-> x \div d, r |-> x % d]
DivSmall(x, d) ==
    LET res == DivStep(x, d, Len(x), 0) IN [q |-> Norm(res.q), r |-> res.r]

RECURSIVE MulC(_, _, _)
MulC(x, d, c) ==
    IF x = <<>> THEN SmallDigits(c)
    ELSE LET p == Head(x) * d + c
         IN  <<p % 10>> \o MulC(Tail(x), d, p \div 10)

\* x * d for a small natural d
MulSmall(x, d) == IF d = 0 THEN <<>> ELSE MulC(x, d, 0)

RECURSIVE Pow2(_)
Pow2(k) == IF k = 0 THEN 1 ELSE 2 * Pow2(k - 1)

\* SQLite renders a REAL with 15 significant decimal digits (10^15 < 2^53)
TEXT_DIGITS == 15

\* IEEE-754 binary64 has a 53-bit significand
MANT_BITS == 53

\* 2^53 = 9007199254740992
TwoPowMant == MulSmall(MulSmall(<<1>>, Pow2(27)), Pow2(26))

\* the widest amount handled is below 2^(53+MAX_SHIFT), about 7.5e22 wei
MAX_SHIFT == 23

\* 2^53, 2^54, ..., indexed from 1
MantBound == [k \in 1..(MAX_SHIFT + 1) |-> MulSmall(TwoPowMant, Pow2(k - 1))]

RECURSIVE ShiftFor(_, _)
\* the least k with x < 2^(53+k): the bits that do not fit the significand
ShiftFor(x, k) ==
    IF IntLess(x, MantBound[k + 1]) THEN k ELSE ShiftFor(x, k + 1)

\* SQLite: CAST(<decimal integer text> AS REAL), the nearest binary64
\* (round to nearest, ties to even)
CastReal(x) ==
    LET k == IF Len(x) <= TEXT_DIGITS THEN 0 ELSE ShiftFor(x, 0)
    IN  IF k = 0 THEN x
        ELSE LET d    == Pow2(k)
                 qr   == DivSmall(x, d)
                 up   == \/ 2 * qr.r > d
                         \/ 2 * qr.r = d /\ IsOdd(qr.q)
                 mant == IF up THEN IntAdd(qr.q, <<1>>) ELSE qr.q
             IN  MulSmall(mant, d)

\* SQLite: a + b on REALs (the exact sum of two binary64, rounded)
RealAdd(x, y) == CastReal(IntAdd(x, y))

\* SQLite: CAST(<REAL> AS TEXT), as the number the text denotes
CastText(x) ==
    IF Len(x) <= TEXT_DIGITS THEN x
    ELSE LET drop == Len(x) - TEXT_DIGITS
             kept == SubSeq(x, drop + 1, Len(x))
             up   == IF x[drop] >= 5 THEN IntAdd(kept, <<1>>) ELSE kept
         IN  [i \in 1..drop |-> 0] \o up

(***************************************************************************)
(* Bounds of the model and the program's configuration                     *)
(***************************************************************************)

\* heights 0..MaxHeight exist on the modelled chain
MaxHeight == 3

\* how many runs (index_range executions) one behaviour starts
MaxRuns == 2

\* chain head when the indexer is constructed
InitHead == 2

\* Config.BATCH_SIZE (environment-configurable, scaled down)
BATCH_SIZE == 2

\* Config.MAX_WORKERS (environment-configurable, scaled down)
MAX_WORKERS == 2

\* Config.WHALE_THRESHOLD, in AVAX
WHALE_THRESHOLD == 1000

\* resume_indexing: "Start 10k blocks back if fresh"
RESUME_LOOKBACK == 10000

\* indexer_state has no 'last_block' row / the checkpoint file does not exist
NoValue == -1

\* tx['to'] of a contract creation
NoAddr == "none"

Max(a, b) == IF a >= b THEN a ELSE b
Min(a, b) == IF a <= b THEN a ELSE b

(***************************************************************************)
(* The chain served by the RPC endpoints (web3 block objects).  Height 0   *)
(* is the empty genesis block; the other heights repeat three shapes: a    *)
(* transfer of 400 AVAX; a contract creation next to a transfer of one wei *)
(* less than 1000 AVAX; a transfer of 1001 AVAX next to a zero-value call. *)
(***************************************************************************)

\* block['timestamp']: block time grows with the height
BlockTime(h) == 100 + h

\* 10^21 - 1 wei
JustBelow == [i \in 1..21 |-> 9]

RawTx(hash, from, to, value) ==
    [hash |-> hash, from |-> from, to |-> to, value |-> value]

\* block.transactions of eth.get_block(h, full_transactions=True)
ChainTxs(h) ==
    IF h = 0 THEN <<>>
    ELSE CASE h % 3 = 1 -> << RawTx(<<h, 1>>, "0xA", "0xB", Dec(400, 18)) >>
           [] h % 3 = 2 -> << RawTx(<<h, 1>>, "0xA", NoAddr, <<>>),
                              RawTx(<<h, 2>>, "0xC", "0xD", JustBelow) >>
           [] OTHER     -> << RawTx(<<h, 1>>, "0xA", "0xB", Dec(1001, 18)),
                              RawTx(<<h, 2>>, "0xC", "0xA", <<>>) >>

\* str.lower() on a checksum address
Lower(a) ==
    CASE a = "0xA" -> "0xa"
      [] a = "0xB" -> "0xb"
      [] a = "0xC" -> "0xc"
      [] a = "0xD" -> "0xd"
      [] OTHER     -> a

(***************************************************************************)
(* get_block_fast: the normalised block.  A transaction record keeps the   *)
(* fields the merge reads (gas_price, gas_used and input_data are copied   *)
(* through to the row unchanged and are left out).                         *)
(***************************************************************************)
NormTx(tx, h) ==
    [hash         |-> tx.hash,
     block_number |-> h,
     from_address |-> Lower(tx.from),
     to_address   |-> IF tx.to # NoAddr THEN Lower(tx.to) ELSE NoAddr,
     value        |-> tx.value,
     timestamp    |-> BlockTime(h)]

BlockResult(h) ==
    LET txs == [i \in 1..Len(ChainTxs(h)) |-> NormTx(ChainTxs(h)[i], h)]
    IN  [block_number |-> h,
         timestamp    |-> BlockTime(h),
         tx_count     |-> Len(txs),
         transactions |-> txs]

(***************************************************************************)
(* extract_wallets_from_batch                                              *)
(***************************************************************************)

\* one "Process sender" / "Process receiver" block of the loop body
Touch(wallets, addr, tx) ==
    LET w0 == IF addr \in DOMAIN wallets THEN wallets
              ELSE wallets @@ (addr :> [first_seen |-> tx.timestamp,
                                        last_seen  |-> tx.timestamp,
                                        tx_count   |-> 0,
                                        volume_wei |-> <<>>])
    IN  [w0 EXCEPT ![addr] =
            [@ EXCEPT !.tx_count   = @ + 1,
                      !.volume_wei = IntAdd(@, tx.value),
                      !.last_seen  = IF tx.timestamp > @ THEN tx.timestamp ELSE @]]

\* the recipient is left out of the loop body
TouchSenderOnly(wallets, tx) == Touch(wallets, tx.from_address, tx)

\* the body of "for tx in block['transactions']"
TouchTx(wallets, tx) ==
    LET w1 == Touch(wallets, tx.from_address, tx)
    IN  IF tx.to_address # NoAddr THEN Touch(w1, tx.to_address, tx) ELSE w1

RECURSIVE FoldTxs(_, _)
FoldTxs(wallets, txs) ==
    IF txs = <<>> THEN wallets
    ELSE FoldTxs(TouchTx(wallets, Head(txs)), Tail(txs))

RECURSIVE FoldBlocks(_, _)
FoldBlocks(wallets, blocks) ==
    IF blocks = <<>> THEN wallets
    ELSE FoldBlocks(FoldTxs(wallets, Head(blocks).transactions), Tail(blocks))

extract_wallets_from_batch(blocks) == FoldBlocks(<<>>, blocks)

(***************************************************************************)
(* save_batch_to_db                                                        *)
(***************************************************************************)

\* all transaction records of a batch, in insertion order
RECURSIVE BatchTxs(_)
BatchTxs(blocks) ==
    IF blocks = <<>> THEN <<>>
    ELSE Head(blocks).transactions \o BatchTxs(Tail(blocks))

\* a plain INSERT into a table without the key
InsertKeepingOld(table, row) == table (+) SetToBag({row})

\* INSERT OR REPLACE INTO transactions: tx_hash is the PRIMARY KEY
InsertOrReplace(table, row) ==
    LET kept == {r \in DOMAIN table : r.hash # row.hash}
    IN  [r \in kept |-> table[r]] (+) SetToBag({row})

RECURSIVE InsertAll(_, _)
InsertAll(table, rows) ==
    IF rows = <<>> THEN table
    ELSE InsertAll(InsertOrReplace(table, Head(rows)), Tail(rows))

\* int(Config.WHALE_THRESHOLD * 1e18)
whale_threshold_wei == Dec(WHALE_THRESHOLD, 18)

\* the VALUES (...) row of the upsert, SQLite's "excluded"
Excluded(data) ==
    [first_seen       |-> data.first_seen,
     last_active      |-> data.last_seen,
     total_txs        |-> data.tx_count,
     total_volume_wei |-> data.volume_wei,
     is_whale         |-> IF IntGeq(data.volume_wei, whale_threshold_wei)
                          THEN 1 ELSE 0]

\* CAST(COALESCE(total_volume_wei, '0') AS REAL)
\*   + CAST(excluded.total_volume_wei AS REAL)
VolumeSum(old, excl) ==
    RealAdd(CastReal(old.total_volume_wei), CastReal(excl.total_volume_wei))

\* is_whale = excluded.is_whale: the flag of the delta alone
WhaleFromDelta(old, excl, sum) == excl.is_whale

\* is_whale = CASE WHEN <sum> >= CAST(? AS REAL) THEN 1 ELSE is_whale END
WhaleOnConflict(old, excl, sum) ==
    IF IntGeq(sum, CastReal(whale_threshold_wei)) THEN 1 ELSE old.is_whale

\* ON CONFLICT(wallet_address) DO UPDATE SET ...: every right-hand side reads
\* the row as it was before the statement
OnConflict(old, excl) ==
    LET sum == VolumeSum(old, excl)
    IN  [first_seen       |-> Min(old.first_seen, excl.first_seen),
         last_active      |-> Max(old.last_active, excl.last_active),
         total_txs        |-> old.total_txs + excl.total_txs,
         total_volume_wei |-> CastText(sum),
         is_whale         |-> WhaleOnConflict(old, excl, sum)]

\* the wallet_profiles table after the upsert of every address of wallets
MergeWallets(profiles, wallets) ==
    [a \in DOMAIN profiles \cup DOMAIN wallets |->
        IF a \notin DOMAIN wallets THEN profiles[a]
        ELSE IF a \in DOMAIN profiles
             THEN OnConflict(profiles[a], Excluded(wallets[a]))
             ELSE Excluded(wallets[a])]

(***************************************************************************)
(* State                                                                   *)
(***************************************************************************)
VARIABLES
    transactions,     \* table transactions: a bag of rows
    wallet_profiles,  \* table wallet_profiles: wallet_address -> row
    indexer_state,    \* indexer_state['last_block'], NoValue when absent
    checkpoint_file,  \* 'last_block' of the JSON checkpoint file
    chain_head,       \* w3.eth.block_number
    pc,               \* where the orchestrator stands
    mode,             \* "sync" inside continuous_sync's loop, else "once"
    start_block,      \* index_range's arguments
    end_block,
    batch_start,      \* the loop variable of index_range
    pending,          \* heights submitted to the pool and not yet completed
    blocks_data,      \* the batch's results, in completion order
    fetched_ok,       \* history: the batch's heights whose fetch returned a block
    gave_up,          \* history: a fetch of the batch ran out of retries
    runs,             \* index_range executions started so far
    run_log,          \* history: the range of each run
    clean,            \* history: no fetch has failed, no run was killed
    observed,         \* history: hashes handed to save_batch_to_db
    ledger,           \* history: per address, what its merged deltas add up to
    skipped,          \* history: heights a checkpointed batch failed to fetch
    current_rpc_index,\* self.current_rpc_index, shared by the pool's threads
    w3,               \* self.w3: the endpoint (index) the Web3 object talks to
    worker,           \* per thread: its RPC call and its _retry_with_backoff frame
    conn,             \* save_batch_to_db's SQLite connection and its open transaction
    db_ok,            \* the database file can be opened and queried
    file_ok,          \* the checkpoint file, if it exists, can be read as JSON
    got               \* the value the last get_checkpoint() call returned

vars == <<transactions, wallet_profiles, indexer_state, checkpoint_file,
          chain_head, pc, mode, start_block, end_block, batch_start, pending,
          blocks_data, fetched_ok, gave_up, runs, run_log, clean, observed, ledger,
          skipped, current_rpc_index, w3, worker, conn, db_ok, file_ok, got>>

db       == <<transactions, wallet_profiles>>
ckpt     == <<indexer_state, checkpoint_file>>
locals   == <<start_block, end_block, batch_start, pending, blocks_data,
               fetched_ok, gave_up>>
history  == <<clean, observed, ledger, skipped>>
rpc      == <<current_rpc_index, w3, worker>>
storage  == <<conn, db_ok, file_ok, got>>
indexer  == <<db, ckpt, chain_head, pc, mode, locals, runs, run_log, history,
              storage>>

\* no connection is open
NoConn ==
    [open |-> FALSE, transactions |-> EmptyBag, wallet_profiles |-> <<>>,
     txs |-> <<>>, wallets |-> <<>>, order |-> <<>>]

\* the threads that make RPC calls: the pool's workers
Workers == 1..MAX_WORKERS

\* a thread that makes no RPC call
NoCall ==
    [site |-> "none", wpc |-> "idle", attempt |-> 0, delay |-> 0, calls |-> 0,
     last_error |-> "none", seen |-> 0, sleeps |-> <<>>,
     func |-> NoValue, asked |-> NoValue, url |-> NoValue]

Heights == 0..MaxHeight

\* every batch is BATCH_SIZE heights long, the last one of a range as well
BatchEndUnclipped(bs, e) == bs + BATCH_SIZE - 1

\* batch_end = min(batch_start + Config.BATCH_SIZE - 1, end_block)
BatchEnd(bs, e) == Min(bs + BATCH_SIZE - 1, e)

batch_end == BatchEnd(batch_start, end_block)

\* the file is consulted first
get_checkpoint_file_first ==
    IF file_ok /\ checkpoint_file # NoValue THEN checkpoint_file
    ELSE IF db_ok /\ indexer_state # NoValue THEN indexer_state
    ELSE 0

(***************************************************************************)
(* get_checkpoint: the primary store first, the file as fallback, else 0;  *)
(* an exception while reading a store is swallowed ("except: pass") and    *)
(* counts as no value                                                      *)
(***************************************************************************)
get_checkpoint ==
    IF db_ok /\ indexer_state # NoValue THEN indexer_state
    ELSE IF file_ok /\ checkpoint_file # NoValue THEN checkpoint_file
    ELSE 0

InitIndexer ==
    /\ transactions = EmptyBag
    /\ wallet_profiles = <<>>
    /\ indexer_state = NoValue
    /\ checkpoint_file = NoValue
    /\ chain_head = InitHead
    /\ pc = "idle"
    /\ mode = "once"
    /\ start_block = 0
    /\ end_block = 0
    /\ batch_start = 0
    /\ pending = {}
    /\ blocks_data = <<>>
    /\ fetched_ok = {}
    /\ gave_up = FALSE
    /\ runs = 0
    /\ run_log = <<>>
    /\ clean = TRUE
    /\ observed = {}
    /\ ledger = <<>>
    /\ skipped = {}
    /\ conn = NoConn
    /\ db_ok = TRUE
    /\ file_ok = TRUE
    /\ got = NoValue

Init ==
    /\ InitIndexer
    /\ current_rpc_index = 0
    /\ w3 = current_rpc_index
    /\ worker = [w \in Workers |-> NoCall]

(***************************************************************************)
(* index_range: entry.  range(start, end + 1, BATCH_SIZE) is empty when    *)
(* start > end, and the call returns at once; otherwise the first batch is *)
(* submitted to the pool.                                                  *)
(***************************************************************************)
\* the end of a run, normal or by an exception, ends the command
AfterRunEnds(m) == "idle"

\* where control goes when index_range returns or raises: back into the
\* loop of continuous_sync (which catches the exception), else out
AfterRun(m) == IF m = "sync" THEN "poll" ELSE "idle"

\* index_range has returned (or its process is gone): its locals are no more
Returned ==
    /\ start_block' = 0
    /\ end_block' = 0
    /\ batch_start' = 0
    /\ pending' = {}
    /\ blocks_data' = <<>>
    /\ fetched_ok' = {}
    /\ gave_up' = FALSE

EnterRange(m, s, e) ==
    /\ runs < MaxRuns
    /\ runs' = runs + 1
    /\ mode' = m
    /\ run_log' = Append(run_log, <<s, e>>)
    /\ IF s <= e
       THEN /\ start_block' = s
            /\ end_block' = e
            /\ batch_start' = s
            /\ pending' = s..BatchEnd(s, e)
            /\ blocks_data' = <<>>
            /\ fetched_ok' = {}
            /\ gave_up' = FALSE
            /\ pc' = "fetch"
       ELSE /\ Returned
            /\ pc' = AfterRun(m)
    /\ UNCHANGED <<rpc, storage, db, ckpt, chain_head, history>>

\* CLI "range": index_range(args.start, args.end), both non-zero
IndexRange(s, e) ==
    /\ pc = "idle"
    /\ EnterRange("once", s, e)

\* index_latest(num_blocks)
IndexLatest(n) ==
    /\ pc = "idle"
    /\ LET latest == chain_head
           start  == Max(0, latest - n)
       IN  EnterRange("once", start, latest)

\* a resume that indexes the checkpointed height once more
ResumeAtCheckpoint(last_block, target) ==
    IF last_block > 0 THEN last_block
    ELSE Max(0, target - RESUME_LOOKBACK)

\* resume_indexing: the first height of the range to index
ResumeStart(last_block, target) ==
    IF last_block > 0 THEN last_block + 1
    ELSE Max(0, target - RESUME_LOOKBACK)

\* resume_indexing: target_block or the chain head; 0 stands for None as well
ResumeTarget(target_block) ==
    IF target_block # 0 THEN target_block ELSE chain_head

\* resume_indexing(target_block)
ResumeIndexing(target_block) ==
    /\ pc = "idle"
    /\ LET last_block == get_checkpoint
           target     == ResumeTarget(target_block)
           start      == ResumeStart(last_block, target)
       IN  IF last_block >= target
           THEN UNCHANGED vars
           ELSE EnterRange("once", start, target)

\* continuous_sync: enter the loop
ContinuousSync ==
    /\ pc = "idle"
    /\ pc' = "poll"
    /\ mode' = "sync"
    /\ UNCHANGED <<rpc, storage, db, ckpt, chain_head, locals, runs, run_log, history>>

\* continuous_sync: one cycle of the loop
SyncCycle ==
    /\ pc = "poll"
    /\ LET last   == get_checkpoint
           latest == chain_head
       IN  IF latest > last
           THEN EnterRange("sync", last + 1, latest)
           ELSE UNCHANGED vars

(***************************************************************************)
(* One future of the batch completes.  The pool runs MAX_WORKERS tasks at  *)
(* a time, in submission order; get_block_fast returns the block, or None  *)
(* after any exception (a height above the chain head always raises).      *)
(***************************************************************************)
Started(h) == Cardinality({g \in pending : g < h}) < MAX_WORKERS

\* the loop over the futures is left after the first completed future
AfterFirstFetch(left) == "save"

\* "with ThreadPoolExecutor(...)" and "for future in as_completed(futures)":
\* the statements after the block run once no future of the batch is left
AfterFetch(left) == IF left = {} THEN "save" ELSE "fetch"

\* a failed future throws away what the batch has collected so far
CollectOrReset(data, h, ok) ==
    IF ok THEN Append(data, BlockResult(h)) ELSE <<>>

\* result = future.result(); if result: blocks_data.append(result)
Collect(data, h, ok) ==
    IF ok THEN Append(data, BlockResult(h)) ELSE data

FetchComplete(h, ok) ==
    /\ pc = "fetch"
    /\ h \in pending
    /\ Started(h)
    /\ ok => h <= chain_head
    /\ pending' = pending \ {h}
    /\ blocks_data' = Collect(blocks_data, h, ok)
    /\ fetched_ok' = IF ok THEN fetched_ok \cup {h} ELSE fetched_ok
    /\ clean' = (clean /\ ok)
    /\ pc' = AfterFetch(pending')
    /\ UNCHANGED <<rpc, storage, db, ckpt, chain_head, mode, start_block, end_block,
                   batch_start, gave_up, runs, run_log, observed, ledger, skipped>>

\* _retry_with_backoff ran out of attempts for height h: its exception is
\* caught by get_block_fast like any other, and the result is None
FetchExhausted(h) ==
    /\ pc = "fetch"
    /\ h \in pending
    /\ Started(h)
    /\ pending' = pending \ {h}
    /\ blocks_data' = Collect(blocks_data, h, FALSE)
    /\ gave_up' = TRUE
    /\ clean' = FALSE
    /\ pc' = AfterFetch(pending')
    /\ UNCHANGED <<rpc, storage, db, ckpt, chain_head, mode, start_block, end_block,
                   batch_start, fetched_ok, runs, run_log, observed, ledger, skipped>>

(***************************************************************************)
(* wallets = extract_wallets_from_batch(blocks_data);                      *)
(* save_batch_to_db(blocks_data, wallets): one SQLite transaction          *)
(***************************************************************************)
LedgerAfter(led, profiles, wallets) ==
    [a \in DOMAIN led \cup DOMAIN wallets |->
        IF a \notin DOMAIN wallets THEN led[a]
        ELSE LET d   == wallets[a]
                 old == IF a \in DOMAIN led THEN led[a]
                        ELSE [merges |-> 0, tx_count |-> 0, volume_wei |-> <<>>,
                              last_seen |-> d.last_seen,
                              delta_volume |-> <<>>, whale_before |-> 0]
             IN  [merges       |-> old.merges + 1,
                  tx_count     |-> old.tx_count + d.tx_count,
                  volume_wei   |-> IntAdd(old.volume_wei, d.volume_wei),
                  last_seen    |-> Max(old.last_seen, d.last_seen),
                  delta_volume |-> d.volume_wei,
                  whale_before |-> IF a \in DOMAIN profiles
                                   THEN profiles[a].is_whale ELSE 0]]

save_batch_to_db(blocks, wallets) ==
    /\ transactions' = InsertAll(transactions, BatchTxs(blocks))
    /\ wallet_profiles' = MergeWallets(wallet_profiles, wallets)

SaveBatch ==
    /\ pc = "save"
    /\ LET wallets == extract_wallets_from_batch(blocks_data)
       IN  /\ save_batch_to_db(blocks_data, wallets)
           /\ ledger' = LedgerAfter(ledger, wallet_profiles, wallets)
    /\ observed' = observed \cup
                   {BatchTxs(blocks_data)[i].hash : i \in 1..Len(BatchTxs(blocks_data))}
    /\ skipped' = skipped \ fetched_ok
    /\ pc' = "ckpt_db"
    /\ UNCHANGED <<rpc, storage, ckpt, chain_head, mode, locals, runs, run_log, clean>>

(***************************************************************************)
(* save_batch_to_db raises (database locked, disk full, constraint): the   *)
(* transaction is never committed and the exception leaves index_range,    *)
(* which has no handler; continuous_sync catches it, prints it and sleeps  *)
(* until the next cycle, the other commands end with it.                   *)
(***************************************************************************)
SaveBatchRaises ==
    /\ pc = "save"
    /\ pc' = "raised"
    /\ clean' = FALSE
    /\ UNCHANGED <<rpc, storage, db, ckpt, chain_head, mode, locals, runs, run_log,
                   observed, ledger, skipped>>

\* the exception is swallowed and the loop body goes on to save_checkpoint
SwallowAndContinue ==
    /\ pc = "raised"
    /\ pc' = "ckpt_db"
    /\ UNCHANGED <<rpc, storage, db, ckpt, chain_head, mode, locals, runs, run_log, history>>

\* index_range has no handler: the exception ends the run
Propagate ==
    /\ pc = "raised"
    /\ pc' = AfterRun(mode)
    /\ Returned
    /\ UNCHANGED <<rpc, storage, db, ckpt, chain_head, mode, runs, run_log, history>>

(***************************************************************************)
(* save_checkpoint(batch_end): the row of indexer_state is committed, then *)
(* the JSON file is rewritten                                              *)
(***************************************************************************)
\* the checkpoint written ahead of the batch's data
SaveCheckpointBeforeData ==
    /\ pc = "save"
    /\ indexer_state # batch_end
    /\ indexer_state' = batch_end
    /\ UNCHANGED <<rpc, storage, db, checkpoint_file, chain_head, pc, mode, locals, runs,
                   run_log, history>>

SaveCheckpointDb ==
    /\ pc = "ckpt_db"
    /\ indexer_state' = batch_end
    /\ skipped' = skipped \cup ((batch_start..batch_end) \ fetched_ok)
    /\ pc' = "ckpt_file"
    /\ UNCHANGED <<rpc, storage, db, checkpoint_file, chain_head, mode, locals, runs,
                   run_log, clean, observed, ledger>>

SaveCheckpointFile ==
    /\ pc = "ckpt_file"
    /\ checkpoint_file' = batch_end
    /\ pc' = "stats"
    /\ UNCHANGED <<rpc, storage, db, indexer_state, chain_head, mode, locals, runs,
                   run_log, history>>

(***************************************************************************)
(* Statistics and progress line, then the next batch or the return         *)
(***************************************************************************)
NextBatch ==
    /\ pc = "stats"
    /\ IF batch_start + BATCH_SIZE <= end_block
       THEN /\ batch_start' = batch_start + BATCH_SIZE
            /\ pending' = batch_start'..BatchEnd(batch_start', end_block)
            /\ blocks_data' = <<>>
            /\ fetched_ok' = {}
            /\ gave_up' = FALSE
            /\ pc' = "fetch"
            /\ UNCHANGED <<start_block, end_block>>
       ELSE /\ pc' = AfterRun(mode)
            /\ Returned
    /\ UNCHANGED <<rpc, storage, db, ckpt, chain_head, mode, runs, run_log, history>>

(***************************************************************************)
(* Environment: the process is killed (uncommitted work is lost, what was  *)
(* committed stays); the chain grows                                       *)
(***************************************************************************)
Crash ==
    /\ pc # "idle"
    /\ pc' = "idle"
    /\ Returned
    /\ mode' = "once"
    /\ clean' = FALSE
    /\ UNCHANGED <<rpc, storage, db, ckpt, chain_head, runs, run_log, observed, ledger, skipped>>

NewBlock ==
    /\ chain_head < MaxHeight
    /\ chain_head' = chain_head + 1
    /\ UNCHANGED <<rpc, storage, db, ckpt, pc, mode, locals, runs, run_log, history>>

Next ==
    \/ \E t \in Heights : ResumeIndexing(t)
    \/ \E s \in 1..MaxHeight, e \in 1..MaxHeight : IndexRange(s, e)
    \/ \E n \in 1..2 : IndexLatest(n)
    \/ ContinuousSync
    \/ SyncCycle
    \/ \E h \in Heights, ok \in BOOLEAN : FetchComplete(h, ok)
    \/ \E h \in Heights : FetchExhausted(h)
    \/ SaveBatch
    \/ SaveBatchRaises
    \/ Propagate
    \/ SaveCheckpointDb
    \/ SaveCheckpointFile
    \/ NextBatch
    \/ Crash
    \/ NewBlock

Spec == Init /\ [][Next]_vars

(***************************************************************************)
(* The RPC calls.  eth.get_block is made through _retry_with_backoff (in   *)
(* get_block_fast); eth.block_number is read directly by index_latest,     *)
(* resume_indexing and continuous_sync.  The outcome of one call is        *)
(* "ok", or an exception whose text holds '429', 'timeout' or 'rate'       *)
(* ("rate"), else holds 'connection' ("conn"), else anything ("other").    *)
(***************************************************************************)

\* Config.MAX_RETRIES
MAX_RETRIES == 5

\* Config.BASE_DELAY, seconds
BASE_DELAY == 1

\* Config.MAX_DELAY, seconds
MAX_DELAY == 60

\* "Try switching RPC after 2 failures": if attempt >= 2
SWITCH_AFTER == 2

\* time.sleep(1) after the switch that follows a connection failure
CONNECTION_PAUSE == 1

\* len(Config.RPC_ENDPOINTS)
NUM_ENDPOINTS == 4

Sites == {"get_block_fast", "index_latest", "resume_indexing", "continuous_sync"}

\* the call sites that wrap their call in _retry_with_backoff
ThroughRetry(site) == site = "get_block_fast"

Outcomes == {"ok", "rate", "conn", "other"}

\* the frame of a thread about to make its call: self.w3.eth.<method> has
\* been evaluated (func is a method of the Web3 object that self.w3 named
\* at that moment), delay = Config.BASE_DELAY
NewCall(site) ==
    [site |-> site, wpc |-> "call", attempt |-> 0, delay |-> BASE_DELAY,
     calls |-> 0, last_error |-> "none", seen |-> 0, sleeps |-> <<>>,
     func |-> w3, asked |-> NoValue, url |-> NoValue]

\* the delay is left as it is
SameDelay(d) == d

\* delay = min(delay * 2, Config.MAX_DELAY)
NextDelay(d) == Min(d * 2, MAX_DELAY)

\* the endpoint is switched after every failed attempt
SwitchAlways(kind, attempt) == TRUE

\* _switch_rpc is called: always in the 'connection' branch, in the rate
\* branch if attempt >= 2
SwitchDue(kind, attempt) == kind = "conn" \/ attempt >= SWITCH_AFTER

\* the loop goes round once more than range(Config.MAX_RETRIES)
OneMoreAttempt(attempt) ==
    IF attempt + 1 < MAX_RETRIES + 1 THEN "call" ELSE "exhausted"

\* for attempt in range(Config.MAX_RETRIES): the next iteration, or the
\* raise Exception("Max retries exceeded ...") after the loop
AfterAttempt(attempt) ==
    IF attempt + 1 < MAX_RETRIES THEN "call" ELSE "exhausted"

\* one call of func (through the executor) or of eth.block_number (direct)
Call(w, out) ==
    LET f == worker[w]
        g == [f EXCEPT !.calls = @ + 1,
                       !.asked = f.func,
                       !.last_error = IF out = "ok" THEN @ ELSE out]
    IN  /\ f.wpc = "call"
        /\ worker' = [worker EXCEPT ![w] =
             CASE out = "ok" -> [g EXCEPT !.wpc = "returned"]
               [] out # "ok" /\ ~ThroughRetry(f.site) -> [g EXCEPT !.wpc = "raised"]
               [] out = "other" /\ ThroughRetry(f.site) -> [g EXCEPT !.wpc = "raised"]
               [] out = "rate" /\ ThroughRetry(f.site) ->
                    [g EXCEPT !.sleeps = Append(@, <<"rate", f.delay>>),
                              !.delay = NextDelay(f.delay),
                              !.wpc = IF SwitchDue("rate", f.attempt)
                                      THEN "switch_read"
                                      ELSE AfterAttempt(f.attempt),
                              !.attempt = IF SwitchDue("rate", f.attempt)
                                          THEN @ ELSE @ + 1]
               [] out = "conn" /\ ThroughRetry(f.site) ->
                    [g EXCEPT !.wpc = IF SwitchDue("conn", f.attempt)
                                      THEN "switch_read"
                                      ELSE AfterAttempt(f.attempt),
                              !.attempt = IF SwitchDue("conn", f.attempt)
                                          THEN @ ELSE @ + 1]]
        /\ UNCHANGED <<current_rpc_index, w3, indexer>>

\* _switch_rpc: the read of self.current_rpc_index
SwitchRead(w) ==
    /\ worker[w].wpc = "switch_read"
    /\ worker' = [worker EXCEPT ![w].seen = current_rpc_index,
                                ![w].wpc = "switch_write"]
    /\ UNCHANGED <<current_rpc_index, w3, indexer>>

\* _switch_rpc: the store of the new index
SwitchWrite(w) ==
    /\ worker[w].wpc = "switch_write"
    /\ current_rpc_index' = (worker[w].seen + 1) % NUM_ENDPOINTS
    /\ worker' = [worker EXCEPT ![w].wpc = "switch_url"]
    /\ UNCHANGED <<w3, indexer>>

\* _switch_rpc: rpc_url = Config.RPC_ENDPOINTS[self.current_rpc_index]
SwitchUrl(w) ==
    /\ worker[w].wpc = "switch_url"
    /\ worker' = [worker EXCEPT ![w].url = current_rpc_index,
                                ![w].wpc = "switch_connect"]
    /\ UNCHANGED <<current_rpc_index, w3, indexer>>

\* _switch_rpc: self.w3 = Web3(HTTPProvider(rpc_url)); then the
\* 'connection' branch sleeps, and the loop goes on with the same func
SwitchConnect(w) ==
    LET f == worker[w]
    IN  /\ f.wpc = "switch_connect"
        /\ w3' = f.url
        /\ worker' = [worker EXCEPT ![w] =
               [f EXCEPT !.sleeps = IF f.last_error = "conn"
                                    THEN Append(@, <<"conn", CONNECTION_PAUSE>>)
                                    ELSE @,
                         !.attempt = @ + 1,
                         !.wpc = AfterAttempt(f.attempt)]]
        /\ UNCHANGED <<current_rpc_index, indexer>>

\* one RPC call made by one thread, from any call site
RetryInit ==
    /\ InitIndexer
    /\ current_rpc_index \in 0..(NUM_ENDPOINTS - 1)
    /\ w3 = current_rpc_index
    /\ \E site \in Sites :
           worker = [w \in Workers |-> IF w = 1 THEN NewCall(site) ELSE NoCall]

RetryNext ==
    \/ \E out \in Outcomes : Call(1, out)
    \/ SwitchRead(1)
    \/ SwitchWrite(1)
    \/ SwitchUrl(1)
    \/ SwitchConnect(1)

RetrySpec == RetryInit /\ [][RetryNext]_vars

\* the pool of index_range: every worker runs get_block_fast at once, the
\* endpoints refusing connections or answering
PoolInit ==
    /\ InitIndexer
    /\ current_rpc_index \in 0..(NUM_ENDPOINTS - 1)
    /\ w3 = current_rpc_index
    /\ worker = [w \in Workers |-> NewCall("get_block_fast")]

PoolNext ==
    \/ \E w \in Workers, out \in {"ok", "conn"} : Call(w, out)
    \/ \E w \in Workers : SwitchRead(w)
    \/ \E w \in Workers : SwitchWrite(w)
    \/ \E w \in Workers : SwitchUrl(w)
    \/ \E w \in Workers : SwitchConnect(w)

PoolSpec == PoolInit /\ [][PoolNext]_vars

(***************************************************************************)
(* save_batch_to_db statement by statement.  sqlite3.connect() with the    *)
(* default isolation level opens a transaction before the first INSERT;    *)
(* the statements are seen by the connection alone until conn.commit().    *)
(* A statement that raises leaves the function before the commit: the      *)
(* transaction is never committed, and is rolled back when the connection  *)
(* object is collected; a killed process leaves a journal that SQLite      *)
(* rolls back.                                                             *)
(***************************************************************************)
RECURSIVE AddrOrder(_, _)
\* the keys of the wallets dict, in insertion order
AddrOrder(txs, seen) ==
    IF txs = <<>> THEN seen
    ELSE LET tx   == Head(txs)
             has(q, a) == \E i \in 1..Len(q) : q[i] = a
             s1   == IF has(seen, tx.from_address) THEN seen
                     ELSE Append(seen, tx.from_address)
             s2   == IF tx.to_address = NoAddr \/ has(s1, tx.to_address) THEN s1
                     ELSE Append(s1, tx.to_address)
         IN  AddrOrder(Tail(txs), s2)

\* one execution of the upsert statement
UpsertOne(profiles, a, data) ==
    IF a \in DOMAIN profiles
    THEN [profiles EXCEPT ![a] = OnConflict(@, Excluded(data))]
    ELSE profiles @@ (a :> Excluded(data))

\* every statement is committed as it is executed
Autocommit(committed, working) == working

\* what the database file holds after a statement of an open transaction
Durable(committed, working) == committed

\* conn = sqlite3.connect(self.db_path); cursor = conn.cursor()
SaveOpen ==
    /\ pc = "save"
    /\ conn' = [open            |-> TRUE,
                transactions    |-> transactions,
                wallet_profiles |-> wallet_profiles,
                txs             |-> BatchTxs(blocks_data),
                wallets         |-> extract_wallets_from_batch(blocks_data),
                order           |-> AddrOrder(BatchTxs(blocks_data), <<>>)]
    /\ pc' = "saving"
    /\ UNCHANGED <<rpc, db, ckpt, chain_head, mode, locals, runs, run_log,
                   history, db_ok, file_ok, got>>

\* INSERT OR REPLACE INTO transactions, for the next transaction
InsertTx ==
    /\ pc = "saving"
    /\ conn.txs # <<>>
    /\ conn' = [conn EXCEPT !.transactions = InsertOrReplace(@, Head(conn.txs)),
                            !.txs = Tail(@)]
    /\ transactions' = Durable(transactions, conn'.transactions)
    /\ UNCHANGED <<rpc, wallet_profiles, ckpt, chain_head, pc, mode, locals, runs,
                   run_log, history, db_ok, file_ok, got>>

\* INSERT INTO wallet_profiles ... ON CONFLICT ..., for the next address
UpsertWallet ==
    /\ pc = "saving"
    /\ conn.txs = <<>>
    /\ conn.order # <<>>
    /\ LET a == Head(conn.order)
       IN  conn' = [conn EXCEPT
                      !.wallet_profiles = UpsertOne(@, a, conn.wallets[a]),
                      !.order = Tail(@)]
    /\ wallet_profiles' = Durable(wallet_profiles, conn'.wallet_profiles)
    /\ UNCHANGED <<rpc, transactions, ckpt, chain_head, pc, mode, locals, runs,
                   run_log, history, db_ok, file_ok, got>>

\* conn.commit(); conn.close()
CommitBatch ==
    /\ pc = "saving"
    /\ conn.txs = <<>>
    /\ conn.order = <<>>
    /\ transactions' = conn.transactions
    /\ wallet_profiles' = conn.wallet_profiles
    /\ conn' = NoConn
    /\ pc' = "ckpt_db"
    /\ UNCHANGED <<rpc, ckpt, chain_head, mode, locals, runs, run_log, history,
                   db_ok, file_ok, got>>

\* a statement (or the commit) raises: the work of the connection is never
\* committed
StatementRaises ==
    /\ pc = "saving"
    /\ conn' = [conn EXCEPT !.open = FALSE]
    /\ pc' = "raised"
    /\ clean' = FALSE
    /\ UNCHANGED <<rpc, db, ckpt, chain_head, mode, locals, runs, run_log,
                   observed, ledger, skipped, db_ok, file_ok, got>>

\* the process is killed inside save_batch_to_db
KilledInSave ==
    /\ pc = "saving"
    /\ conn' = [conn EXCEPT !.open = FALSE]
    /\ pc' = "idle"
    /\ Returned
    /\ clean' = FALSE
    /\ UNCHANGED <<rpc, db, ckpt, chain_head, mode, runs, run_log, observed,
                   ledger, skipped, db_ok, file_ok, got>>

\* index_range commands whose fetches succeed, their batches saved
\* statement by statement
SaveNext ==
    \/ \E s \in 1..MaxHeight, e \in 1..MaxHeight : IndexRange(s, e)
    \/ \E h \in Heights : FetchComplete(h, TRUE)
    \/ SaveOpen
    \/ InsertTx
    \/ UpsertWallet
    \/ CommitBatch
    \/ StatementRaises
    \/ KilledInSave
    \/ Propagate
    \/ SaveCheckpointDb
    \/ SaveCheckpointFile
    \/ NextBatch

SaveSpec == Init /\ [][SaveNext]_vars

(***************************************************************************)
(* get_checkpoint() called on any pair of stores: each holds a height or   *)
(* none, the two may differ, and each may be unreadable (database locked   *)
(* or corrupt, file not JSON).                                             *)
(***************************************************************************)
StoredValues == {NoValue} \cup Heights

CheckpointInit ==
    /\ InitIndexer
    /\ current_rpc_index = 0
    /\ w3 = current_rpc_index
    /\ worker = [w \in Workers |-> NoCall]

\* the stores as an earlier process left them
StoresLeft ==
    /\ indexer_state = NoValue
    /\ checkpoint_file = NoValue
    /\ got = NoValue
    /\ pc = "idle"
    /\ \E p \in StoredValues, f \in StoredValues, d \in BOOLEAN, j \in BOOLEAN :
          /\ indexer_state' = p
          /\ checkpoint_file' = f
          /\ db_ok' = d
          /\ file_ok' = j
    /\ pc' = "open"
    /\ UNCHANGED <<rpc, db, chain_head, mode, locals, runs, run_log, history,
                   conn, got>>

\* last_block = self.get_checkpoint()
GetCheckpoint ==
    /\ pc = "open"
    /\ got' = get_checkpoint
    /\ pc' = "read"
    /\ UNCHANGED <<rpc, db, ckpt, chain_head, mode, locals, runs, run_log,
                   history, conn, db_ok, file_ok>>

CheckpointNext == StoresLeft \/ GetCheckpoint

CheckpointSpec == CheckpointInit /\ [][CheckpointNext]_vars

(***************************************************************************)
(* Vocabulary of the properties                                            *)
(***************************************************************************)

\* the addresses a transaction record names
Parties(tx) ==
    {tx.from_address} \cup (IF tx.to_address # NoAddr THEN {tx.to_address} ELSE {})

RECURSIVE VolumeOf(_, _)
\* the sum of the values of the occurrences of address a, as sender and as
\* recipient, in the transaction records txs
VolumeOf(a, txs) ==
    IF txs = <<>> THEN <<>>
    ELSE LET tx   == Head(txs)
             rest == VolumeOf(a, Tail(txs))
             r1   == IF tx.from_address = a THEN IntAdd(rest, tx.value) ELSE rest
         IN  IF tx.to_address = a THEN IntAdd(r1, tx.value) ELSE r1

(***************************************************************************)
(* The other programs of the repository that open the same database file:  *)
(* WalletProfiler.build_profiles (analytics/wallet_profiler.py) and        *)
(* import_from_snowtrace (indexer/third_party_import.py).  Both are        *)
(* commands of their own; they are run here while no indexer command is.   *)
(***************************************************************************)

\* "Whale detection (>100 AVAX equivalent in wei)"
PROFILER_WHALE == 100

RECURSIVE SumSent(_, _)
\* SUM(CASE WHEN from_address = ? THEN value ELSE 0 END): the TEXT values
\* are added as REAL
SumSent(a, rows) ==
    IF rows = {} THEN <<>>
    ELSE LET r    == CHOOSE x \in rows : TRUE
             rest == SumSent(a, rows \ {r})
         IN  IF r.from_address = a THEN RealAdd(rest, CastReal(r.value)) ELSE rest

\* _profile_wallet: the row written by INSERT OR REPLACE INTO
\* wallet_profiles; str() of the float denotes the float
ProfileRow(a) ==
    LET rows       == {r \in DOMAIN transactions :
                          r.from_address = a \/ r.to_address = a}
        times      == {r.timestamp : r \in rows}
        total_sent == SumSent(a, rows)
    IN  [first_seen       |-> CHOOSE t \in times : \A u \in times : t <= u,
         last_active      |-> CHOOSE t \in times : \A u \in times : t >= u,
         total_txs        |-> Cardinality(rows),
         total_volume_wei |-> total_sent,
         is_whale         |-> IF IntLess(Dec(PROFILER_WHALE, 18), total_sent)
                              THEN 1 ELSE 0]

\* build_profiles: every address of the transactions table is profiled
BuildProfiles ==
    /\ pc = "idle"
    /\ LET wallets == UNION {Parties(r) : r \in DOMAIN transactions}
       IN  wallet_profiles' =
               [a \in DOMAIN wallet_profiles \cup wallets |->
                   IF a \in wallets THEN ProfileRow(a) ELSE wallet_profiles[a]]
    /\ UNCHANGED <<rpc, storage, transactions, ckpt, chain_head, pc, mode, locals, runs,
                   run_log, history>>

\* the rows of ./data/snowtrace_export.csv: an export of the transactions
\* of height h (From, To, Value)
CsvRows(h) == ChainTxs(h)

\* import_from_snowtrace: wallets[addr]['count'], wallets[addr]['volume']
\* for addr in [from_addr, to_addr], addr non-empty
CsvWallets(h) ==
    LET rows == CsvRows(h)
        idx  == 1..Len(rows)
        norm == [i \in idx |->
                    [from_address |-> Lower(rows[i].from),
                     to_address   |-> IF rows[i].to # NoAddr
                                      THEN Lower(rows[i].to) ELSE NoAddr,
                     value        |-> rows[i].value]]
        addrs == UNION {Parties(norm[i]) : i \in idx}
    IN  [a \in addrs |->
            [count  |-> Cardinality({i \in idx : norm[i].from_address = a})
                          + Cardinality({i \in idx : norm[i].to_address = a}),
             volume |-> VolumeOf(a, norm)]]

\* import_from_snowtrace: INSERT OR REPLACE INTO wallet_profiles
\* (wallet_address, total_txs, total_volume_wei, last_updated); the other
\* columns take their defaults
ImportFromSnowtrace(h) ==
    /\ pc = "idle"
    /\ LET wallets == CsvWallets(h)
       IN  wallet_profiles' =
               [a \in DOMAIN wallet_profiles \cup DOMAIN wallets |->
                   IF a \in DOMAIN wallets
                   THEN [first_seen       |-> NoValue,
                         last_active      |-> NoValue,
                         total_txs        |-> wallets[a].count,
                         total_volume_wei |-> wallets[a].volume,
                         is_whale         |-> 0]
                   ELSE wallet_profiles[a]]
    /\ UNCHANGED <<rpc, storage, transactions, ckpt, chain_head, pc, mode, locals, runs,
                   run_log, history>>

\* index_range commands whose fetches all succeed, the profiler and the
\* importer, run one after the other on the same database
SharedDbNext ==
    \/ \E s \in 1..MaxHeight, e \in 1..MaxHeight : IndexRange(s, e)
    \/ \E h \in Heights : FetchComplete(h, TRUE)
    \/ SaveBatch
    \/ SaveCheckpointDb
    \/ SaveCheckpointFile
    \/ NextBatch
    \/ BuildProfiles
    \/ \E h \in 1..MaxHeight : ImportFromSnowtrace(h)

SharedDbSpec == Init /\ [][SharedDbNext]_vars

\* the transaction records of height h, as a set
TxsOf(h) == {BlockResult(h).transactions[i] : i \in 1..Len(ChainTxs(h))}

\* the heights of the blocks the current batch hands to save_batch_to_db
Collected == {blocks_data[i].block_number : i \in 1..Len(blocks_data)}

\* every transaction of height h has its row and its parties have profiles
HeightPersisted(h) ==
    \A tx \in TxsOf(h) :
        /\ tx \in DOMAIN transactions
        /\ Parties(tx) \subseteq DOMAIN wallet_profiles

\* the rows that name address a
RowsOf(a) == {r \in DOMAIN transactions : a \in Parties(r)}

\* how often the transactions of height h name address a (a transaction from
\* a to a counts twice)
Mentions(a, h) ==
    Cardinality({tx \in TxsOf(h) : tx.from_address = a})
      + Cardinality({tx \in TxsOf(h) : tx.to_address = a})

RECURSIVE MentionsIn(_, _)
MentionsIn(a, hs) ==
    IF hs = {} THEN 0
    ELSE LET h == CHOOSE x \in hs : TRUE
         IN  Mentions(a, h) + MentionsIn(a, hs \ {h})

RECURSIVE BlocksOf(_, _)
\* the blocks of heights lo..hi, in height order
BlocksOf(lo, hi) ==
    IF lo > hi THEN <<>> ELSE <<BlockResult(lo)>> \o BlocksOf(lo + 1, hi)

RECURSIVE ProfilesAfterRun(_, _, _)
\* wallet_profiles after index_range(bs, e) on the given table, with every
\* fetch succeeding
ProfilesAfterRun(profiles, bs, e) ==
    IF bs > e THEN profiles
    ELSE ProfilesAfterRun(
             MergeWallets(profiles,
                          extract_wallets_from_batch(BlocksOf(bs, BatchEnd(bs, e)))),
             bs + BATCH_SIZE, e)

\* how many of the first k sleeps followed a rate-limit or timeout failure
RateSleeps(sl, k) == Cardinality({i \in 1..k : sl[i][1] = "rate"})

\* thread w is inside _switch_rpc
InSwitch(w) ==
    worker[w].wpc \in {"switch_read", "switch_write", "switch_url",
                       "switch_connect"}

RECURSIVE SwitchesOf(_)
\* how many _switch_rpc calls the threads ws have completed: in the pool,
\* where every failure is a connection failure, one per pause slept
SwitchesOf(ws) ==
    IF ws = {} THEN 0
    ELSE LET w == CHOOSE x \in ws : TRUE
         IN  Len(worker[w].sleeps) + SwitchesOf(ws \ {w})

\* no run is in progress
Quiet == pc \in {"idle", "poll"}

(***************************************************************************)
(* C1: running index_range(s, e) twice over the same heights, every fetch  *)
(* succeeding, leaves each profile's total_txs and total_volume_wei at the *)
(* values they have after one run.                                         *)
(***************************************************************************)
C1_ReindexKeepsAggregates ==
    ( /\ Quiet
      /\ clean
      /\ Len(run_log) = 2
      /\ run_log[1] = run_log[2]
      /\ run_log[1][1] <= run_log[1][2] )
    => LET once == ProfilesAfterRun(<<>>, run_log[1][1], run_log[1][2])
       IN  /\ DOMAIN wallet_profiles = DOMAIN once
           /\ \A a \in DOMAIN once :
                /\ wallet_profiles[a].total_txs = once[a].total_txs
                /\ wallet_profiles[a].total_volume_wei = once[a].total_volume_wei

(***************************************************************************)
(* C2: the transactions table holds exactly one row per observed hash, and *)
(* the row equals the fetched transaction; re-observing a hash overwrites  *)
(* the row and never duplicates it.                                        *)
(***************************************************************************)
C2_OneRowPerHash ==
    /\ \A r \in DOMAIN transactions :
         /\ transactions[r] = 1
         /\ r.hash \in observed
         /\ r \in TxsOf(r.block_number)
    /\ \A x \in observed :
         Cardinality({r \in DOMAIN transactions : r.hash = x}) = 1

\* heights 1..2 were indexed twice, every fetch succeeding
C2_Witness ==
    /\ pc = "idle"
    /\ clean
    /\ run_log = << <<1, 2>>, <<1, 2>> >>
    /\ BagCardinality(transactions) = 3

(***************************************************************************)
(* C3: the persisted checkpoint only advances: no step stores a height     *)
(* below the checkpoint stored before it.                                  *)
(***************************************************************************)
C3_CheckpointOnlyAdvances ==
    [][get_checkpoint' >= get_checkpoint]_vars

(***************************************************************************)
(* C4: the checkpoint is a gap-free watermark: once a batch is             *)
(* checkpointed, every height of the run's range up to the checkpoint has  *)
(* its transactions persisted and folded into the profiles.                *)
(***************************************************************************)
C4_GapFreeWatermark ==
    pc = "stats" =>
        \A h \in start_block..indexer_state : HeightPersisted(h)

(***************************************************************************)
(* C5, as stated: between the commit of a batch's data and its checkpoint  *)
(* write, the stored checkpoint is at most the last height of the previous *)
(* batch.                                                                  *)
(***************************************************************************)
C5_CheckpointAtMostPreviousBatch ==
    pc = "ckpt_db" => indexer_state <= batch_start - 1

(***************************************************************************)
(* C5, amended: the checkpoint of a batch is written only after the        *)
(* batch's data are committed, and between the two the stored checkpoint   *)
(* is the one stored when the batch began: the previous batch's last       *)
(* height for every batch after the first of its run.                      *)
(***************************************************************************)
C5_DataBeforeCheckpoint ==
    [][ /\ (indexer_state' # indexer_state \/ checkpoint_file' # checkpoint_file)
           => /\ pc \in {"ckpt_db", "ckpt_file"}
              /\ \A h \in Collected : HeightPersisted(h)
              /\ indexer_state' = batch_end
        /\ (pc = "ckpt_db" /\ batch_start > start_block)
           => indexer_state = batch_start - 1 ]_vars

\* the process was killed between the two writes: rows above the checkpoint
C5_Witness ==
    /\ pc = "idle"
    /\ ~clean
    /\ \E r \in DOMAIN transactions : r.block_number > get_checkpoint

(***************************************************************************)
(* C6: a height whose fetch soft-fails does not stop its batch: the other  *)
(* heights' transactions and wallet deltas are persisted, nothing is       *)
(* persisted for the failed height, and the checkpoint becomes the batch's *)
(* last height.                                                            *)
(***************************************************************************)
C6_SoftFailIsolation ==
    [][ /\ (pc = "save" /\ pc' = "ckpt_db")
           => LET all    == batch_start..batch_end
                  failed == all \ fetched_ok
              IN  /\ \A h \in fetched_ok : \A tx \in TxsOf(h) :
                        /\ tx \in DOMAIN transactions'
                        /\ Parties(tx) \subseteq DOMAIN wallet_profiles'
                  /\ \A r \in DOMAIN transactions' :
                        r.block_number \in failed => r \in DOMAIN transactions
                  /\ \A a \in DOMAIN wallet_profiles' :
                        wallet_profiles'[a].total_txs =
                            (IF a \in DOMAIN wallet_profiles
                             THEN wallet_profiles[a].total_txs ELSE 0)
                            + MentionsIn(a, fetched_ok)
        /\ (pc = "ckpt_file" /\ pc' = "stats")
           => /\ indexer_state = batch_end
              /\ checkpoint_file' = batch_end ]_vars

\* a batch of two heights, one of them failed, has been checkpointed
C6_Witness ==
    /\ pc = "stats"
    /\ batch_end = batch_start + 1
    /\ Cardinality(fetched_ok) = 1
    /\ \A h \in fetched_ok : HeightPersisted(h)
    /\ \E h \in (batch_start..batch_end) \ fetched_ok : h <= chain_head
    /\ indexer_state = batch_end

(***************************************************************************)
(* C7: after two merges D1, D2 of an address the profile holds             *)
(* total_txs = D1.tx_count + D2.tx_count, total_volume_wei = D1.volume +   *)
(* D2.volume as an exact integer, last_active = max of the last_seen.      *)
(***************************************************************************)
C7_TwoMergesAddExactly ==
    \A a \in DOMAIN ledger :
        ledger[a].merges = 2 =>
            /\ wallet_profiles[a].total_txs = ledger[a].tx_count
            /\ wallet_profiles[a].total_volume_wei = ledger[a].volume_wei
            /\ wallet_profiles[a].last_active = ledger[a].last_seen

(***************************************************************************)
(* C8: a profile's first_seen is the minimum timestamp over all            *)
(* transactions observed for the address, whatever order the batch's       *)
(* fetches complete in.                                                    *)
(***************************************************************************)
C8_FirstSeenIsMinimum ==
    \A a \in DOMAIN wallet_profiles :
        \A r \in RowsOf(a) : wallet_profiles[a].first_seen <= r.timestamp

(***************************************************************************)
(* C9: whale monotonicity: once is_whale is 1 for an address, no merge,    *)
(* not even one whose delta has zero volume, sets it back to 0.            *)
(***************************************************************************)
C9_WhaleMonotone ==
    [][ \A a \in DOMAIN wallet_profiles :
            wallet_profiles[a].is_whale = 1
            => /\ a \in DOMAIN wallet_profiles'
               /\ wallet_profiles'[a].is_whale = 1 ]_vars

\* a whale went through a merge whose delta has zero volume
C9_Witness ==
    \E a \in DOMAIN ledger :
        /\ ledger[a].whale_before = 1
        /\ ledger[a].delta_volume = <<>>
        /\ wallet_profiles[a].is_whale = 1

(***************************************************************************)
(* C10: after every merge, is_whale is 1 exactly for the wallets whose     *)
(* accumulated volume exceeds the threshold.                               *)
(***************************************************************************)
C10_WhaleIffAboveThreshold ==
    \A a \in DOMAIN wallet_profiles :
        wallet_profiles[a].is_whale = 1
        <=> IntLess(whale_threshold_wei, ledger[a].volume_wei)

(***************************************************************************)
(* C11: when save_batch_to_db fails, index_range ends without the batch's  *)
(* checkpoint write: nothing of the batch is stored, the stored checkpoint *)
(* stays what it was (the previous batch's last height for a batch after   *)
(* the first of its run), and the run processes no further batch.          *)
(***************************************************************************)
C11_SaveFailureAborts ==
    [][ pc = "raised"
        => /\ transactions' = transactions
           /\ wallet_profiles' = wallet_profiles
           /\ indexer_state' = indexer_state
           /\ checkpoint_file' = checkpoint_file
           /\ batch_start > start_block => indexer_state = batch_start - 1
           /\ \A h \in fetched_ok : \A tx \in TxsOf(h) :
                  tx.hash \notin observed => tx \notin DOMAIN transactions
           /\ pc' \in {"raised", "idle", "poll"}
           /\ pc' # "raised" => pending' = {} ]_vars

\* the second batch of a run failed to save: the first batch's checkpoint
\* stands, the rows of the second batch are absent
C11_Witness ==
    /\ Quiet
    /\ Len(run_log) = 1
    /\ run_log[1] = <<1, 3>>
    /\ indexer_state = 2
    /\ checkpoint_file = 2
    /\ HeightPersisted(1) /\ HeightPersisted(2)
    /\ ~HeightPersisted(3)
    /\ chain_head = 3
    /\ ~clean

(***************************************************************************)
(* C12: a fetch that runs out of retries ends the run: the batch it        *)
(* belongs to is neither saved as if the height had been skipped nor       *)
(* checkpointed.                                                           *)
(***************************************************************************)
C12_ExhaustionAbortsRun ==
    gave_up => pc \notin {"ckpt_file", "stats"}

(***************************************************************************)
(* C13: a height whose fetch failed inside a checkpointed batch is fetched *)
(* again by the next resume_indexing pass (it lies in the range the pass   *)
(* indexes).                                                               *)
(***************************************************************************)
C13_SkippedRevisited ==
    [][ \A t \in Heights :
            (ResumeIndexing(t) /\ pc' = "fetch")
            => \A h \in skipped :
                   h <= end_block' => h >= start_block' ]_vars

(***************************************************************************)
(* C14: _retry_with_backoff calls the operation at most MAX_RETRIES times; *)
(* it ends with the result, with a non-retryable error raised at once, or, *)
(* after MAX_RETRIES attempts that all failed with a retryable error, with *)
(* "Max retries exceeded"; there is no attempt after that.                 *)
(***************************************************************************)
C14_BoundedAttempts ==
    \A w \in Workers :
        LET f == worker[w]
        IN  ThroughRetry(f.site) =>
              /\ f.calls <= MAX_RETRIES
              /\ f.wpc \in {"call", "switch_read", "switch_write", "switch_url",
                            "switch_connect", "returned", "raised", "exhausted"}
              /\ f.wpc = "returned" => f.calls = Len(f.sleeps) + 1
              /\ f.wpc = "raised" => /\ f.last_error = "other"
                                     /\ f.calls = Len(f.sleeps) + 1
              /\ f.wpc = "exhausted" => /\ f.calls = MAX_RETRIES
                                        /\ Len(f.sleeps) = MAX_RETRIES
                                        /\ f.last_error \in {"rate", "conn"}

\* every attempt failed with a retryable error
C14_Witness ==
    /\ worker[1].site = "get_block_fast"
    /\ worker[1].wpc = "exhausted"
    /\ worker[1].calls = MAX_RETRIES

(***************************************************************************)
(* C15, as stated: whatever the retryable failures are, the delay slept    *)
(* before the k-th retry is min(BASE_DELAY * 2^(k-1), MAX_DELAY).          *)
(***************************************************************************)
C15_DelayDoublesEveryRetry ==
    \A w \in Workers :
        LET sl == worker[w].sleeps
        IN  \A k \in 1..Len(sl) :
                sl[k][2] = Min(BASE_DELAY * Pow2(k - 1), MAX_DELAY)

(***************************************************************************)
(* C15, amended: the delay slept after the j-th rate-limit or timeout      *)
(* failure of an operation is min(BASE_DELAY * 2^(j-1), MAX_DELAY); a      *)
(* connection failure sleeps the fixed pause after the endpoint switch and *)
(* leaves the backoff delay as it is.                                      *)
(***************************************************************************)
C15_DelayDoublesPerRateFailure ==
    \A w \in Workers :
        LET f  == worker[w]
            sl == f.sleeps
        IN  ThroughRetry(f.site) =>
              /\ \A k \in 1..Len(sl) :
                    sl[k][2] = IF sl[k][1] = "rate"
                               THEN Min(BASE_DELAY * Pow2(RateSleeps(sl, k) - 1),
                                        MAX_DELAY)
                               ELSE CONNECTION_PAUSE
              /\ f.delay = Min(BASE_DELAY * Pow2(RateSleeps(sl, Len(sl))),
                               MAX_DELAY)
              /\ f.delay <= MAX_DELAY

\* five rate-limit failures in a row: the delays 1, 2, 4, 8, 16
C15_Witness ==
    /\ worker[1].wpc = "exhausted"
    /\ worker[1].sleeps = << <<"rate", 1>>, <<"rate", 2>>, <<"rate", 4>>,
                             <<"rate", 8>>, <<"rate", 16>> >>

C17_OneSwitchInFlight ==
    Cardinality({w \in Workers : InSwitch(w)}) <= 1

(***************************************************************************)
(* C18: no RPC call, from any call site, lets a rate-limit, timeout or     *)
(* connection failure propagate: such a failure is retried, and only a     *)
(* non-retryable error is raised to the caller at once.                    *)
(***************************************************************************)
C18_EveryCallRetried ==
    \A w \in Workers :
        worker[w].wpc = "raised" => worker[w].last_error = "other"

(***************************************************************************)
(* C19: resume_indexing(target) with checkpoint c changes nothing when     *)
(* c >= target (no fetch, no table write, no checkpoint write); for        *)
(* 0 < c < target it enters index_range(c + 1, target), where target is    *)
(* the given target or, when none is given, the chain head; the checkpoint *)
(* and the tables are as they were when the range starts.                  *)
(***************************************************************************)
C19_ResumeFromCheckpoint ==
    [][ \A t \in Heights :
            ResumeIndexing(t) =>
              LET c      == get_checkpoint
                  target == IF t = 0 THEN chain_head ELSE t
              IN  /\ c >= target =>
                        /\ pc' = "idle"
                        /\ UNCHANGED <<db, ckpt, locals, run_log>>
                  /\ (0 < c /\ c < target) =>
                        /\ pc' = "fetch"
                        /\ start_block' = c + 1
                        /\ end_block' = target
                        /\ batch_start' = c + 1
                        /\ run_log' = Append(run_log, <<c + 1, target>>)
                        /\ UNCHANGED <<db, ckpt>> ]_vars

C19_Witness ==
    /\ pc = "fetch"
    /\ get_checkpoint > 0
    /\ start_block = get_checkpoint + 1
    /\ batch_start = start_block
    /\ end_block = chain_head
    /\ end_block > start_block
    /\ Len(run_log) = 2
    /\ run_log[2] = <<start_block, end_block>>
    /\ fetched_ok = {}

(***************************************************************************)
(* C20: resume_indexing with checkpoint 0 starts at target minus the       *)
(* lookback and never at height 0.                                         *)
(***************************************************************************)
C20_FreshResumeNeverAtGenesis ==
    [][ \A t \in Heights :
            (ResumeIndexing(t) /\ get_checkpoint = 0 /\ pc' = "fetch")
            => /\ start_block' = ResumeTarget(t) - RESUME_LOOKBACK
               /\ start_block' # 0 ]_vars

(***************************************************************************)
(* C21: continuous_sync never ends by itself.  A cycle that finds the      *)
(* chain head above the stored checkpoint c enters index_range(c + 1,      *)
(* head); an error raised inside a cycle leads back to the poll, with the  *)
(* stored checkpoint untouched, and only a kill of the process leaves the  *)
(* loop.                                                                   *)
(***************************************************************************)
C21_SyncNeverEnds ==
    [][ (mode = "sync" /\ ~Crash)
        => /\ mode' = "sync"
           /\ pc' # "idle"
           /\ (pc = "poll" /\ pc' = "fetch")
              => /\ chain_head > get_checkpoint
                 /\ start_block' = get_checkpoint + 1
                 /\ end_block' = chain_head
           /\ (pc = "poll" /\ chain_head <= get_checkpoint)
              => (pc' = "poll" /\ UNCHANGED <<db, ckpt, locals>>)
           /\ pc = "raised"
              => (pc' \in {"raised", "poll"} /\ UNCHANGED <<db, ckpt>>) ]_vars

\* a cycle ended with an error in its second batch, and the next cycle
\* started behind the checkpoint of the first
C21_Witness ==
    /\ mode = "sync"
    /\ pc = "fetch"
    /\ run_log = << <<1, 3>>, <<3, 3>> >>
    /\ indexer_state = 2
    /\ start_block = 3
    /\ ~clean

(***************************************************************************)
(* C22: the tables and the checkpoint are written only while no fetch of   *)
(* the batch is outstanding, and heights are submitted to the pool only at *)
(* the start of a run or after the previous batch's checkpoint is saved in *)
(* both stores.                                                            *)
(***************************************************************************)
C22_BatchBarrier ==
    [][ /\ (db' # db \/ ckpt' # ckpt) => (pending = {} /\ pending' = {})
        /\ (db' # db) => Collected = fetched_ok
        /\ ~(pending' \subseteq pending)
           => /\ pending = {}
              /\ pc \in {"idle", "poll", "stats"}
              /\ pc = "stats"
                 => /\ indexer_state = batch_end
                    /\ checkpoint_file = batch_end
                    /\ \A h \in pending' : h > batch_end ]_vars

\* the second batch of a run is being fetched, the first is checkpointed
C22_Witness ==
    /\ pc = "fetch"
    /\ batch_start > start_block
    /\ pending # {}
    /\ indexer_state = batch_start - 1
    /\ checkpoint_file = batch_start - 1
    /\ \A h \in start_block..(batch_start - 1) : HeightPersisted(h)

(***************************************************************************)
(* C28: index_range(start, end), start <= end, works through consecutive   *)
(* batches of BATCH_SIZE heights, the last one clipped to end, in          *)
(* increasing order; each batch submits exactly its own heights, and its   *)
(* checkpoint is its last height; a run that completes leaves end in both  *)
(* checkpoint stores.                                                      *)
(***************************************************************************)
C28_BatchesPartitionRange ==
    [][ /\ (pc' = "fetch" /\ pc # "fetch")
           => /\ start_block' <= end_block'
              /\ batch_start' =
                    (IF pc = "stats" THEN batch_start + BATCH_SIZE ELSE start_block')
              /\ pc = "stats" => UNCHANGED <<start_block, end_block>>
              /\ batch_start' <= end_block'
              /\ pending' =
                    batch_start'..Min(batch_start' + BATCH_SIZE - 1, end_block')
        /\ (pc' = "fetch" /\ pc = "fetch")
           => /\ pending' \subseteq pending
              /\ UNCHANGED <<start_block, end_block, batch_start>>
        /\ (indexer_state' # indexer_state \/ checkpoint_file' # checkpoint_file)
           => /\ pc \in {"ckpt_db", "ckpt_file"}
              /\ get_checkpoint' = Min(batch_start + BATCH_SIZE - 1, end_block)
        /\ (pc = "stats" /\ ~Crash /\ pc' \in {"idle", "poll"})
           => /\ batch_start + BATCH_SIZE > end_block
              /\ indexer_state = end_block
              /\ checkpoint_file = end_block ]_vars

\* index_range(1, 3) has completed: batches [1,2] and [3,3]
C28_Witness ==
    /\ pc = "idle"
    /\ clean
    /\ run_log = << <<1, 3>> >>
    /\ indexer_state = 3
    /\ checkpoint_file = 3
    /\ \A h \in 1..3 : HeightPersisted(h)

(***************************************************************************)
(* C26: the deltas extract_wallets_from_batch returns for the batch about  *)
(* to be saved: one per address named by a transaction of the batch, none  *)
(* for any other; tx_count is the number of occurrences of the address as  *)
(* sender plus as recipient, volume_wei the sum of the values of these     *)
(* occurrences; a contract creation counts for its sender alone.           *)
(***************************************************************************)
C26_DeltasCountOccurrences ==
    pc = "save" =>
        LET wallets == extract_wallets_from_batch(blocks_data)
            txs     == BatchTxs(blocks_data)
            idx     == 1..Len(txs)
        IN  /\ DOMAIN wallets = UNION {Parties(txs[i]) : i \in idx}
            /\ NoAddr \notin DOMAIN wallets
            /\ \A a \in DOMAIN wallets :
                 /\ wallets[a].tx_count =
                        Cardinality({i \in idx : txs[i].from_address = a})
                          + Cardinality({i \in idx : txs[i].to_address = a})
                 /\ wallets[a].volume_wei = VolumeOf(a, txs)

\* a batch with a contract creation and with an address that is sender of
\* one transaction and recipient of another
C26_Witness ==
    /\ pc = "save"
    /\ Collected = {2, 3}
    /\ extract_wallets_from_batch(blocks_data)["0xa"].tx_count = 3

(***************************************************************************)
(* C30: the checkpoint file never holds a height greater than the one in   *)
(* indexer_state (nor a height while indexer_state holds none), and after  *)
(* a completed save_checkpoint both stores hold the same height, which     *)
(* get_checkpoint returns.                                                 *)
(***************************************************************************)
C30_FileNeverAhead ==
    /\ checkpoint_file # NoValue
       => (indexer_state # NoValue /\ checkpoint_file <= indexer_state)
    /\ pc = "stats"
       => /\ indexer_state = batch_end
          /\ checkpoint_file = batch_end
          /\ get_checkpoint = batch_end

(***************************************************************************)
(* C27: every attempt of a fetch is issued to the endpoint self.w3 is      *)
(* connected to at that moment: after _switch_rpc, the next attempt goes   *)
(* to the newly selected endpoint.                                         *)
(***************************************************************************)
C27_RetryUsesNewEndpoint ==
    [][ \A w \in Workers :
            ( /\ ThroughRetry(worker[w].site)
              /\ worker'[w].calls = worker[w].calls + 1 )
            => worker'[w].asked = w3 ]_vars

(***************************************************************************)
(* C29: whenever no thread is inside _switch_rpc, self.w3 is connected to  *)
(* RPC_ENDPOINTS[current_rpc_index], and current_rpc_index has advanced by *)
(* one, modulo the number of endpoints, for every completed switch.        *)
(***************************************************************************)
C29_HandleFollowsIndex ==
    (\A w \in Workers : ~InSwitch(w))
    => /\ w3 = current_rpc_index
       /\ current_rpc_index =
              (worker[1].func + SwitchesOf(Workers)) % NUM_ENDPOINTS

(***************************************************************************)
(* C25: the tables transactions and wallet_profiles change only in the     *)
(* step in which the indexer commits a batch after its barrier, and a      *)
(* profile changes only by the accumulate-merge of that batch's deltas.    *)
(***************************************************************************)
C25_OnlyIndexerWrites ==
    [][ (transactions' # transactions \/ wallet_profiles' # wallet_profiles)
        => /\ pc = "save"
           /\ pending = {}
           /\ wallet_profiles' =
                  MergeWallets(wallet_profiles,
                               extract_wallets_from_batch(blocks_data)) ]_vars

(***************************************************************************)
(* C23: get_checkpoint returns the height of indexer_state whenever that   *)
(* store can be read and holds one, whatever the file holds; it returns    *)
(* the file's height only when indexer_state holds none or cannot be read; *)
(* it returns 0 when neither store yields a height.                        *)
(***************************************************************************)
C23_PrimaryIsAuthoritative ==
    pc = "read" =>
        LET primary == db_ok /\ indexer_state # NoValue
            file    == file_ok /\ checkpoint_file # NoValue
        IN  /\ primary => got = indexer_state
            /\ (~primary /\ file) => got = checkpoint_file
            /\ (~primary /\ ~file) => got = 0
            /\ (got = checkpoint_file /\ got # indexer_state) => ~primary

\* the two stores hold different heights and the primary's is returned
C23_Witness ==
    /\ pc = "read"
    /\ db_ok /\ file_ok
    /\ indexer_state = 1
    /\ checkpoint_file = 2
    /\ got = 1

(***************************************************************************)
(* C24: the tables change only at the commit of save_batch_to_db, and      *)
(* then by the whole batch: every transaction inserted, every address      *)
(* merged.  A statement that fails, or a kill, at any point before the     *)
(* commit leaves both tables as they were before the batch.                *)
(***************************************************************************)
C24_SaveIsAtomic ==
    [][ /\ (transactions' # transactions \/ wallet_profiles' # wallet_profiles)
           => /\ pc = "saving"
              /\ pc' = "ckpt_db"
              /\ transactions' = InsertAll(transactions, BatchTxs(blocks_data))
              /\ wallet_profiles' =
                     MergeWallets(wallet_profiles,
                                  extract_wallets_from_batch(blocks_data))
        /\ (pc = "saving" /\ pc' \in {"raised", "idle"})
           => UNCHANGED <<transactions, wallet_profiles>> ]_vars

\* the save of height 2 failed after the upsert of the first of its three
\* addresses: the tables are as index_range(1, 1) left them
C24_Witness ==
    /\ pc = "raised"
    /\ run_log = << <<1, 1>>, <<2, 2>> >>
    /\ ~conn.open
    /\ conn.order = << "0xc", "0xd" >>
    /\ conn.wallet_profiles["0xa"].total_txs = 2
    /\ wallet_profiles["0xa"].total_txs = 1
    /\ DOMAIN wallet_profiles = {"0xa", "0xb"}
    /\ BagCardinality(transactions) = 1

=============================================================================
